---- MODULE Spec2Model ----
(***************************************************************************)
(* State machine of the operator control panel in frontend/src/App.js:     *)
(* the configuration form, the status polling loop, the start/stop         *)
(* lifecycle handlers and the bounded event log.                           *)
(*                                                                         *)
(* JavaScript runs the handlers on one thread; a handler runs without      *)
(* interruption up to its next await.  Every action below is one such      *)
(* uninterrupted piece: a handler from its invocation to its first await,  *)
(* or the continuation that runs when an awaited promise settles.  React   *)
(* state is modelled as rendered: a handler invoked through a control sees *)
(* the state of the latest update.  The handlers call the state setters    *)
(* without asking whether the component is still mounted.  What a setter   *)
(* does once the component is unmounted is up to the UI library, which is  *)
(* not part of the program: the update is either applied or discarded.     *)
(*                                                                         *)
(* When the status request a start or stop awaits has settled,             *)
(* fetchBotStatus returns in one promise job and the handler resumes in a  *)
(* later one: these are two actions, and between them other promise jobs   *)
(* may run, but no event handler, timer callback or effect cleanup, which  *)
(* are tasks and start only when no promise job is queued.                 *)
(***************************************************************************)
EXTENDS Bags, FiniteSets, Integers, Sequences, TLC

\* ------------------------------------------------------------------ bounds
\* Number of startBot/stopBot invocations explored.
MaxInvocations == 2
\* Number of status requests after which the timer is no longer explored.
MaxPolls == 1
\* Number of status requests after which the timer is no longer explored
\* by SpecBusy.
MaxBusyPolls == 2
\* Number of status requests after which the timer is no longer explored
\* by LiveSpec.
MaxLivePolls == 2
\* Number of times the trading process starts or stops by itself.
MaxRemoteChanges == 1
\* Number of startBot/stopBot invocations explored under fairness.
MaxFairInvocations == 1
\* Number of times the wall clock is seen to advance.
MaxClock == 1
\* Number of appends explored by SpecLog (beyond the capacity of the log).
LogRun == 103

\* ------------------------------------------------------- program constants
\* addLog keeps prev.slice(-99) and appends one entry.
LogKeep == 99

VARIABLES
  config,     \* useState: the configuration form
  botStatus,  \* useState: the status snapshot
  logs,       \* useState: the event log
  isLoading,  \* useState: a start or stop is in flight
  mounted,    \* the component is mounted (the interval timer is armed)
  acts,       \* bag of suspended startBot/stopBot calls
  polls,      \* bag of suspended timer-driven fetchBotStatus calls
  sent,       \* number of fetch calls issued, per endpoint
  calls,      \* number of handler invocations, per handler
  clock,      \* the wall clock read by addLog
  appended,   \* every entry ever passed to setLogs, in order (history)
  remote      \* the trading process behind the API: whether it runs

vars == <<config, botStatus, logs, isLoading, mounted, acts, polls,
          sent, calls, clock, appended, remote>>

\* ------------------------------------------------------------- JS numbers
\* A JS number is NaN, an infinity or a finite double.  A finite double is
\* held by its sign and its value bits * 2^bexp, where bits is the binary
\* numeral of an odd integer below 2^53 (most significant bit first; no
\* bits for zero, whose sign is kept).  Two texts denote the same number
\* exactly when parseFloat gives the same double for them.
NaN == [kind |-> "nan", neg |-> FALSE, bits |-> <<>>, bexp |-> 0]
Infinity(neg) == [kind |-> "inf", neg |-> neg, bits |-> <<>>, bexp |-> 0]
Zero(neg) == [kind |-> "num", neg |-> neg, bits |-> <<>>, bexp |-> 0]

\* The greatest and the least element of a set of integers.
SetMax(S) == CHOOSE x \in S : \A y \in S : y <= x
SetMin(S) == CHOOSE x \in S : \A y \in S : x <= y

Digits == <<"0", "1", "2", "3", "4", "5", "6", "7", "8", "9">>
IsDigit(c) == \E i \in 1..10 : Digits[i] = c
DigitVal(c) == (CHOOSE i \in 1..10 : Digits[i] = c) - 1

\* Length of the longest prefix of s made of digits.
DigitRun(s) ==
  LET other == {i \in 1..Len(s) : ~IsDigit(s[i])}
  IN IF other = {} THEN Len(s) ELSE SetMin(other) - 1

\* Value of a digit string read as an integer.
RECURSIVE IntOf(_)
IntOf(s) ==
  IF s = <<>> THEN 0 ELSE 10 * IntOf(SubSeq(s, 1, Len(s) - 1)) + DigitVal(s[Len(s)])

\* s without its leading zeros, and the number of zeros s ends with.
StripLeadingZeros(s) ==
  LET nz == {i \in 1..Len(s) : s[i] # "0"}
  IN IF nz = {} THEN <<>> ELSE SubSeq(s, SetMin(nz), Len(s))

TrailingZeros(s) ==
  LET nz == {i \in 1..Len(s) : s[i] # "0"}
  IN IF nz = {} THEN Len(s) ELSE Len(s) - SetMax(nz)

\* The string of k zeros.
Zeros(k) == [i \in 1..k |-> "0"]

\* Natural numbers of any size, for the rounding of a decimal to a double:
\* a sequence of digits in base 10000, least significant first, the most
\* significant one not 0.
BigTrim(a) ==
  LET nz == {i \in 1..Len(a) : a[i] # 0}
  IN IF nz = {} THEN <<>> ELSE SubSeq(a, 1, SetMax(nz))

\* The digit of a at place i (0 outside a).
BigDigit(a, i) == IF i >= 1 /\ i <= Len(a) THEN a[i] ELSE 0

\* The value of the i-th group of four decimal digits of ds, from the right.
DigitGroup(ds, i) ==
  LET hi == Len(ds) - 4 * (i - 1)
      lo == IF hi - 3 < 1 THEN 1 ELSE hi - 3
  IN IntOf(SubSeq(ds, lo, hi))

\* The natural number a string of decimal digits denotes.
BigOfDigits(ds) ==
  BigTrim([i \in 1..((Len(ds) + 3) \div 4) |-> DigitGroup(ds, i)])

\* a < b, a = b, a > b as -1, 0, 1.
BigCmp(a, b) ==
  IF Len(a) # Len(b) THEN (IF Len(a) < Len(b) THEN -1 ELSE 1)
  ELSE LET diff == {i \in 1..Len(a) : a[i] # b[i]}
       IN IF diff = {} THEN 0
          ELSE IF a[SetMax(diff)] < b[SetMax(diff)] THEN -1 ELSE 1

\* 2 * a: the carry into a digit is 1 when the digit below is 5000 or more.
BigDouble(a) ==
  BigTrim([i \in 1..(Len(a) + 1) |->
             (2 * BigDigit(a, i) + (IF BigDigit(a, i - 1) >= 5000 THEN 1 ELSE 0))
               % 10000])

\* 2^k * a.
RECURSIVE BigTimesPowerOf2(_, _)
BigTimesPowerOf2(a, k) ==
  IF a = <<>> \/ k <= 0 THEN a
  ELSE IF k = 1 THEN BigDouble(a)
  ELSE BigTimesPowerOf2(BigTimesPowerOf2(a, k \div 2), k - k \div 2)

\* The number of decimal digits of a.
BigLen(a) ==
  IF a = <<>> THEN 0
  ELSE 4 * (Len(a) - 1) + (IF a[Len(a)] >= 1000 THEN 4
                            ELSE IF a[Len(a)] >= 100 THEN 3
                            ELSE IF a[Len(a)] >= 10 THEN 2 ELSE 1)

\* The borrow of a - b into place i: 1 when the digits below place i are
\* less in a than in b.
Borrow(a, b, i) ==
  LET diff == {j \in 1..(i - 1) : a[j] # BigDigit(b, j)}
  IN IF diff # {} /\ a[SetMax(diff)] < BigDigit(b, SetMax(diff)) THEN 1 ELSE 0

\* a - b for a >= b.
BigSub(a, b) ==
  BigTrim([i \in 1..Len(a) |->
             (a[i] - BigDigit(b, i) - Borrow(a, b, i) + 10000) % 10000])

\* The exponent q of the double range n / d lies in, for d52 = d * 2^52, has
\* 2^52 <= n/d / 2^q < 2^53, or is -1074 with n/d / 2^q < 2^52 (a
\* subnormal); n / d52 = (n/d / 2^q) / 2^52 throughout.
InRange(s) ==
  /\ s.q >= -1074
  /\ BigCmp(s.n, BigDouble(s.d52)) < 0
  /\ s.q = -1074 \/ BigCmp(s.n, s.d52) >= 0

\* One step towards that exponent: d52 or n is doubled.
ScaleStep(s) ==
  IF BigCmp(s.n, BigDouble(s.d52)) >= 0
  THEN [n |-> s.n, d52 |-> BigDouble(s.d52), q |-> s.q + 1]
  ELSE IF s.q > -1074 /\ BigCmp(s.n, s.d52) < 0
  THEN [n |-> BigDouble(s.n), d52 |-> s.d52, q |-> s.q - 1]
  ELSE s

\* ScaleStep repeated until the range is reached, k times at most.
RECURSIVE Scale(_, _)
Scale(s, k) ==
  IF InRange(s) THEN s
  ELSE IF k = 1 THEN ScaleStep(s)
  ELSE Scale(Scale(s, k \div 2), k - k \div 2)

\* The start of the scaling of n / d: an exponent within ten of the one
\* sought, from the numbers of decimal digits of n and d (a decimal digit is
\* 3.32 bits), and n and d52 scaled to it.
ScaleStart(num, den) ==
  LET est == ((BigLen(num) - BigLen(den) - 1) * 3322) \div 1000 - 53
      q0 == IF est < -1074 THEN -1074 ELSE est
  IN [n |-> BigTimesPowerOf2(num, 0 - q0),
      d52 |-> BigTimesPowerOf2(den, 52 + (IF q0 > 0 THEN q0 ELSE 0)),
      q |-> q0]

\* One bit of the quotient n / (d52 / 2^52), below n / d52 < 2: the bit is
\* written after the bits found so far and the remainder is doubled.
QuotientStep(s) ==
  LET one == BigCmp(s.n, s.d52) >= 0
  IN [n |-> BigDouble(IF one THEN BigSub(s.n, s.d52) ELSE s.n),
      d52 |-> s.d52, bits |-> Append(s.bits, IF one THEN 1 ELSE 0)]

\* QuotientStep repeated until the 53 bits are found, k times at most.
RECURSIVE QuotientBits(_, _)
QuotientBits(s, k) ==
  IF Len(s.bits) = 53 THEN s
  ELSE IF k = 1 THEN QuotientStep(s)
  ELSE QuotientBits(QuotientBits(s, k \div 2), k - k \div 2)

\* The binary numeral bits plus one.
BitsPlusOne(bits) ==
  LET zero == {i \in 1..Len(bits) : bits[i] = 0}
  IN IF zero = {} THEN <<1>> \o [i \in 1..Len(bits) |-> 0]
     ELSE [i \in 1..Len(bits) |->
             IF i < SetMax(zero) THEN bits[i]
             ELSE IF i = SetMax(zero) THEN 1 ELSE 0]

\* The double with the value bits * 2^q: Infinity from 2^1024 on.
Double(neg, bits, q) ==
  LET ones == {i \in 1..Len(bits) : bits[i] = 1}
  IN IF ones = {} THEN Zero(neg)
     ELSE IF q + (Len(bits) - SetMin(ones)) >= 1024 THEN Infinity(neg)
     ELSE [kind |-> "num", neg |-> neg,
           bits |-> SubSeq(bits, SetMin(ones), SetMax(ones)),
           bexp |-> q + (Len(bits) - SetMax(ones))]

\* The double nearest to n / d (ties to the even one).
NearestDouble(neg, num, den) ==
  LET scaled == Scale(ScaleStart(num, den), 16)
      quot == QuotientBits([n |-> scaled.n, d52 |-> scaled.d52, bits |-> <<>>], 64)
      half == BigCmp(quot.n, quot.d52)
      up == half > 0 \/ (half = 0 /\ quot.bits[53] = 1)
  IN IF scaled.q > 971 THEN Infinity(neg)
     ELSE Double(neg, IF up THEN BitsPlusOne(quot.bits) ELSE quot.bits, scaled.q)

\* The double parseFloat gives for the digit string ds times 10^e with the
\* sign neg.  A decimal of 10^309 or more is Infinity and one below 10^-324
\* is zero; digits after the first 800 significant ones cannot decide the
\* rounding except by not being all zero.
Decimal(neg, ds, e) ==
  LET lead == StripLeadingZeros(ds)
      z == TrailingZeros(lead)
      all == SubSeq(lead, 1, Len(lead) - z)
      sig == IF Len(all) > 800 THEN SubSeq(all, 1, 800) \o <<"1">> ELSE all
      exp == e + z + (Len(all) - Len(sig))
      order == Len(lead) + e
  IN IF all = <<>> THEN Zero(neg)
     ELSE IF order > 309 THEN Infinity(neg)
     ELSE IF order < -323 THEN Zero(neg)
     ELSE IF exp >= 0
          THEN NearestDouble(neg, BigOfDigits(sig \o Zeros(exp)), <<1>>)
          ELSE NearestDouble(neg, BigOfDigits(sig),
                             BigOfDigits(<<"1">> \o Zeros(0 - exp)))

\* The characters parseFloat skips at the start of the text: white space
\* (tab, vertical tab, form feed, space, no-break space, byte order mark and
\* the space separators) and line terminators; the characters that have no
\* escape are named by their code point.
WhiteSpace ==
  {" ", "\t", "\n", "\r", "\f", "U+000B", "U+00A0", "U+FEFF", "U+2028",
   "U+2029", "U+1680", "U+2000", "U+2001", "U+2002", "U+2003", "U+2004",
   "U+2005", "U+2006", "U+2007", "U+2008", "U+2009", "U+200A", "U+202F",
   "U+205F", "U+3000"}

SkipWhiteSpace(s) ==
  LET other == {i \in 1..Len(s) : s[i] \notin WhiteSpace}
  IN IF other = {} THEN <<>> ELSE SubSeq(s, SetMin(other), Len(s))

\* parseFloat on a sequence of characters: leading white space is skipped,
\* then the longest prefix that is a decimal literal is read (sign, then
\* Infinity or digits, fraction and exponent); NaN when there is none.  An
\* exponent of ten digits or more is beyond the range whatever the digits
\* before it (no text is that long).
ParseFloat(text) ==
  LET trimmed == SkipWhiteSpace(text)
      neg == trimmed # <<>> /\ Head(trimmed) = "-"
      signed == trimmed # <<>> /\ Head(trimmed) \in {"-", "+"}
      body == IF signed THEN Tail(trimmed) ELSE trimmed
      isInfinity ==
        /\ Len(body) >= 8
        /\ SubSeq(body, 1, 8) = <<"I", "n", "f", "i", "n", "i", "t", "y">>
      n == DigitRun(body)
      rest == SubSeq(body, n + 1, Len(body))
      hasDot == rest # <<>> /\ Head(rest) = "."
      f == IF hasDot THEN DigitRun(Tail(rest)) ELSE 0
      after == IF hasDot THEN SubSeq(rest, f + 2, Len(rest)) ELSE rest
      hasE == after # <<>> /\ Head(after) \in {"e", "E"}
      expText == IF hasE THEN Tail(after) ELSE <<>>
      expSigned == expText # <<>> /\ Head(expText) \in {"-", "+"}
      expNeg == expText # <<>> /\ Head(expText) = "-"
      expBody == IF expSigned THEN Tail(expText) ELSE expText
      expDigits == StripLeadingZeros(SubSeq(expBody, 1, DigitRun(expBody)))
      ds == SubSeq(body, 1, n) \o (IF hasDot THEN SubSeq(rest, 2, f + 1) ELSE <<>>)
  IN IF isInfinity THEN Infinity(neg)
     ELSE IF n = 0 /\ f = 0 THEN NaN
     ELSE IF Len(expDigits) >= 10
          THEN (IF expNeg \/ StripLeadingZeros(ds) = <<>>
                THEN Zero(neg) ELSE Infinity(neg))
     ELSE Decimal(neg, ds,
                  (IF expNeg THEN 0 - IntOf(expDigits) ELSE IntOf(expDigits)) - f)

\* ---------------------------------------------------------- configuration
\* useState initial value of config.
InitialConfig ==
  [api_key |-> "", secret_key |-> "", symbol |-> "BTCUSDT",
   buy_quantity |-> Decimal(FALSE, <<"1">>, -3),
   sell_quantity |-> Decimal(FALSE, <<"1">>, -3),
   max_price_deviation |-> Decimal(FALSE, <<"5">>, -2)]

\* The change events explored: the input's name and type attributes and
\* the value typed (text of a number input as a sequence of characters).
InputEvents ==
  { [name |-> "api_key", type |-> "password", value |-> "k1"],
    [name |-> "secret_key", type |-> "password", value |-> "s1"],
    [name |-> "symbol", type |-> "text", value |-> "ETHUSDT"] }

\* The change events explored for the form alone: those above and texts
\* typed into the number inputs: decimals inside and outside the range
\* hinted by min and max and finer than the step, with an exponent and with
\* leading white space, the empty text and text that is not a number.
FormEvents ==
  InputEvents \cup
  { [name |-> "buy_quantity", type |-> "number", value |-> <<"0", ".", "5">>],
    [name |-> "buy_quantity", type |-> "number", value |-> <<>>],
    [name |-> "buy_quantity", type |-> "number", value |-> <<"a", "b", "c">>],
    [name |-> "sell_quantity", type |-> "number", value |-> <<"2">>],
    [name |-> "sell_quantity", type |-> "number", value |-> <<"-", "1">>],
    [name |-> "max_price_deviation", type |-> "number", value |-> <<"0", ".", "9">>],
    [name |-> "max_price_deviation", type |-> "number", value |-> <<".", "2", "5", "x">>],
    [name |-> "buy_quantity", type |-> "number", value |-> <<"1", "e", "3">>],
    [name |-> "sell_quantity", type |-> "number", value |-> <<" ", "1", ".", "0">>],
    [name |-> "max_price_deviation", type |-> "number",
     value |-> <<"0", ".", "0", "0", "0", "5">>] }

\* JSON.stringify of a number: NaN and the infinities are written as null,
\* zero without its sign, any other number as a decimal that denotes it,
\* held here as the number it denotes.
JsonNumber(x) ==
  IF x.kind # "num"
  THEN [null |-> TRUE, neg |-> FALSE, bits |-> <<>>, bexp |-> 0]
  ELSE [null |-> FALSE, neg |-> x.neg /\ x.bits # <<>>,
        bits |-> x.bits, bexp |-> x.bexp]

\* JSON.stringify(config): the body of the start request.
JsonStringify(cfg) ==
  [api_key |-> cfg.api_key, secret_key |-> cfg.secret_key,
   symbol |-> cfg.symbol,
   buy_quantity |-> JsonNumber(cfg.buy_quantity),
   sell_quantity |-> JsonNumber(cfg.sell_quantity),
   max_price_deviation |-> JsonNumber(cfg.max_price_deviation)]

\* Mutant of KeysMissing: only the API key is validated.
KeysMissingApiOnly(cfg) == cfg.api_key = ""

\* !config.api_key || !config.secret_key
KeysMissing(cfg) == cfg.api_key = "" \/ cfg.secret_key = ""

\* ------------------------------------------------------------- responses
\* useState initial value of botStatus.
InitialStatus == [running |-> FALSE, message |-> ""]

\* Parsed JSON values the server is seen to answer with.
StatusRunning == [running |-> TRUE, message |-> "ok", best_bid |-> 0]
StatusStopped == [running |-> FALSE, message |-> "stopped"]
ErrorDetail == [detail |-> "invalid symbol"]

\* A response body: a JSON text with its parsed value, or a text that
\* response.json() rejects with a SyntaxError.
JsonBody(v) == [parses |-> TRUE, value |-> v]
BadBody == [parses |-> FALSE, value |-> [message |-> "Unexpected end of JSON input"]]

\* The responses explored: status (response.ok) and body.
Responses ==
  { [ok |-> TRUE, body |-> JsonBody(StatusRunning)],
    [ok |-> TRUE, body |-> JsonBody(StatusStopped)],
    [ok |-> TRUE, body |-> BadBody],
    [ok |-> FALSE, body |-> JsonBody(ErrorDetail)],
    [ok |-> FALSE, body |-> BadBody] }

\* The trading process as the API reports it: whether it runs, and how
\* often it has started or stopped by itself.  Only LiveSpec follows the
\* process; elsewhere a request is answered with any of Responses.
RemoteInitial == [running |-> FALSE, changes |-> 0]

\* The body GET /api/bot-status is answered with.
RemoteStatus == IF remote.running THEN StatusRunning ELSE StatusStopped

\* The reasons fetch rejects with (error.message).
FetchErrors == {"Failed to fetch"}

NoResponse == [ok |-> FALSE, body |-> [parses |-> FALSE, value |-> [message |-> "pending"]]]

\* obj.field of a parsed JSON value; a missing field reads undefined.
Field(obj, f) == IF f \in DOMAIN obj THEN obj[f] ELSE "undefined"

\* botStatus.running used as a condition.
Running(status) == "running" \in DOMAIN status /\ status.running = TRUE

\* The numeric fields of the status the panel has an item for.
NumericStatusFields == {"best_bid", "best_ask", "spread", "initial_price"}

\* {botStatus.f && (<div className="status-item">...</div>)} for a numeric
\* field f: the item is rendered when the value is truthy, that is, when
\* the field is there and is not 0 (for 0 the expression is 0, and React
\* renders the bare text 0 without the item).
StatusItemShown(status, f) == f \in DOMAIN status /\ status[f] # 0

\* ------------------------------------------------------------- event log
LogEntry(message, type) == [timestamp |-> clock, message |-> message, type |-> type]

\* prev.slice(-k): the last k elements.
SliceLast(prev, k) ==
  IF Len(prev) <= k THEN prev ELSE SubSeq(prev, Len(prev) - k + 1, Len(prev))

\* Mutant of addLog: the slice is off by one (slice(-100)).
addLogSlice100(prev, entry) == Append(SliceLast(prev, LogKeep + 1), entry)

\* The updater addLog passes to setLogs.
addLog(prev, entry) == Append(SliceLast(prev, LogKeep), entry)

\* ---------------------------------------------------------- state setters
\* The values a piece of state can hold after its setter was called with
\* next: next while the component is mounted; once it is unmounted the UI
\* library either applies the update or discards it.
SetState(current, next) == IF mounted THEN {next} ELSE {current, next}

\* ----------------------------------------------------------------- tasks
\* A suspended async call: where it waits (pc), the response it holds, and
\* for startBot the config of the render it was invoked in (cfg) and the
\* request body it sent.
NoBody == [none |-> TRUE]
Task(kind, pc, cfg, body, resp) ==
  [kind |-> kind, pc |-> pc, cfg |-> cfg, body |-> body, resp |-> resp]
PollTask(pc, resp) == [pc |-> pc, resp |-> resp]

One(t) == SetToBag({t})
Moved(bag, from, to) == (bag (-) One(from)) (+) One(to)

\* No continuation of a handler is queued as a promise job: the jobs queued
\* by a task run before the next task (an event handler, a timer callback,
\* the cleanup of the effect) starts.
NoJobQueued == \A t \in BagToSet(acts) : t.pc # "resume"

\* The log messages, as the literal part and the interpolated part.
MsgKeysMissing == <<"Please enter API keys">>
MsgStarted(symbol) == <<"Bot started for pair ", symbol>>
MsgStopped == <<"Bot stopped">>
MsgFailed(kind, detail) ==
  <<IF kind = "start" THEN "Start error: " ELSE "Stop error: ", detail>>
MsgConnection(reason) == <<"Connection error: ", reason>>

\* addLog(message, type): stamps the entry and queues the update of logs.
AddLog(message, type) ==
  /\ logs' \in SetState(logs, addLog(logs, LogEntry(message, type)))
  /\ appended' = Append(appended, LogEntry(message, type))

\* ------------------------------------------------------------------ Init
Init ==
  /\ config = InitialConfig
  /\ botStatus = InitialStatus
  /\ logs = <<>>
  /\ isLoading = FALSE
  /\ mounted = TRUE
  /\ acts = EmptyBag
  /\ polls = EmptyBag
  /\ sent = [start |-> 0, stop |-> 0, status |-> 0]
  /\ calls = [start |-> 0, stop |-> 0]
  /\ clock = 0
  /\ appended = <<>>
  /\ remote = RemoteInitial

\* ---------------------------------------------------- configuration form
\* Mutant of handleInputChange: the value is stored as typed, the text of a
\* number input included (held here as a record marking it as text).
handleInputChangeKeepsText(e) ==
  /\ config' \in SetState(config,
       [config EXCEPT ![e.name] =
          IF e.type = "number" THEN [text |-> e.value] ELSE e.value])
  /\ UNCHANGED <<botStatus, logs, isLoading, mounted, acts, polls, sent,
                 calls, remote, clock, appended>>

\* handleInputChange(e)
handleInputChange(e) ==
  /\ config' \in SetState(config,
       [config EXCEPT ![e.name] =
          IF e.type = "number" THEN ParseFloat(e.value) ELSE e.value])
  /\ UNCHANGED <<botStatus, logs, isLoading, mounted, acts, polls, sent,
                 calls, remote, clock, appended>>

\* The operator types into a field of the form.
Edit ==
  /\ mounted
  /\ NoJobQueued
  /\ \E e \in InputEvents : handleInputChange(e)

\* The operator types into a field of the form, the number inputs included.
EditForm ==
  /\ mounted
  /\ NoJobQueued
  /\ \E e \in FormEvents : handleInputChange(e)

\* ---------------------------------------------------------------- timer
\* fetchBotStatus up to its first await: the GET is issued.
\* The interval timer fires fetchBotStatus; limit bounds the number of
\* status requests explored.
TickWithin(limit) ==
  /\ mounted
  /\ NoJobQueued
  /\ sent.status < limit
  /\ polls' = polls (+) One(PollTask("fetch", NoResponse))
  /\ sent' = [sent EXCEPT !.status = @ + 1]
  /\ UNCHANGED <<config, botStatus, logs, isLoading, mounted, acts, calls, remote, clock, appended>>

Tick == TickWithin(MaxPolls)

\* The cleanup of the effect: clearInterval.
Unmount ==
  /\ mounted
  /\ NoJobQueued
  /\ mounted' = FALSE
  /\ UNCHANGED <<config, botStatus, logs, isLoading, acts, polls, sent,
                 calls, remote, clock, appended>>

\* Time passes.
AdvanceClock ==
  /\ clock < MaxClock
  /\ clock' = clock + 1
  /\ UNCHANGED <<config, botStatus, logs, isLoading, mounted, acts, polls,
                 sent, calls, appended, remote>>

\* ------------------------------------------------------- fetchBotStatus
\* Mutant of StatusAfter: the parsed body is merged into the previous
\* snapshot ({...prev, ...status}) instead of replacing it.
StatusAfterMerged(resp) ==
  IF resp.body.parses
  THEN SetState(botStatus,
                [f \in DOMAIN botStatus \cup DOMAIN resp.body.value |->
                   IF f \in DOMAIN resp.body.value
                   THEN resp.body.value[f] ELSE botStatus[f]])
  ELSE {botStatus}

\* Mutant of StatusAfter: a snapshot, once set, is never replaced.
StatusAfterKeepsFirst(resp) ==
  IF resp.body.parses /\ botStatus = InitialStatus
  THEN SetState(botStatus, resp.body.value)
  ELSE {botStatus}

\* The snapshots fetchBotStatus can leave for a response: setBotStatus(await
\* response.json()), or nothing when json() rejects.  response.ok is not
\* read.
StatusAfter(resp) ==
  IF resp.body.parses THEN SetState(botStatus, resp.body.value) ELSE {botStatus}

\* Mutant of PollFetchFails: the catch reports to the log, as the one of
\* startBot does.
PollFetchFailsLogged ==
  \E p \in BagToSet(polls) :
    /\ p.pc = "fetch"
    /\ polls' = polls (-) One(p)
    /\ AddLog(MsgConnection("Failed to fetch"), "error")
    /\ UNCHANGED <<config, botStatus, isLoading, mounted, acts, sent, calls,
                   remote, clock>>

\* fetch of a timer-driven poll rejects: the catch writes to the console.
PollFetchFails ==
  \E p \in BagToSet(polls) :
    /\ p.pc = "fetch"
    /\ polls' = polls (-) One(p)
    /\ UNCHANGED <<config, botStatus, logs, isLoading, mounted, acts, sent,
                   calls, remote, clock, appended>>

\* fetch of a timer-driven poll resolves with a response.
PollFetchResolves ==
  \E p \in BagToSet(polls), r \in Responses :
    /\ p.pc = "fetch"
    /\ polls' = Moved(polls, p, PollTask("json", r))
    /\ UNCHANGED <<config, botStatus, logs, isLoading, mounted, acts, sent,
                   calls, remote, clock, appended>>

\* response.json() of a timer-driven poll settles.
PollJsonSettles ==
  \E p \in BagToSet(polls) :
    /\ p.pc = "json"
    /\ botStatus' \in StatusAfter(p.resp)
    /\ polls' = polls (-) One(p)
    /\ UNCHANGED <<config, logs, isLoading, mounted, acts, sent, calls, remote, clock, appended>>

\* ------------------------------------------------------------- startBot
\* startBot from its invocation to the first await: the validation of the
\* keys, setIsLoading(true) and the POST of JSON.stringify(config).
startBot ==
  /\ calls' = [calls EXCEPT !.start = @ + 1]
  /\ IF KeysMissing(config)
     THEN /\ AddLog(MsgKeysMissing, "error")
          /\ UNCHANGED <<isLoading, acts, sent>>
     ELSE /\ isLoading' \in SetState(isLoading, TRUE)
          /\ sent' = [sent EXCEPT !.start = @ + 1]
          /\ acts' = acts (+) One(Task("start", "fetch", config,
                                        JsonStringify(config), NoResponse))
          /\ UNCHANGED <<logs, appended>>
  /\ UNCHANGED <<config, botStatus, mounted, polls, remote, clock>>

\* stopBot from its invocation to the first await: setIsLoading(true) and
\* the POST without a body.
stopBot ==
  /\ calls' = [calls EXCEPT !.stop = @ + 1]
  /\ isLoading' \in SetState(isLoading, TRUE)
  /\ sent' = [sent EXCEPT !.stop = @ + 1]
  /\ acts' = acts (+) One(Task("stop", "fetch", InitialConfig, NoBody, NoResponse))
  /\ UNCHANGED <<config, botStatus, logs, mounted, polls, remote, clock, appended>>

\* Mutant of StartDisabled: the button ignores isLoading.
StartDisabledByRunningOnly == Running(botStatus)

\* Mutant of StopDisabled: the button ignores botStatus.running.
StopDisabledByLoadingOnly == isLoading

\* disabled attribute of the start button and of the stop button.
StartDisabled == isLoading \/ Running(botStatus)
StopDisabled == isLoading \/ ~Running(botStatus)

\* The operator clicks the start button (onClick={startBot}); limit bounds
\* the number of invocations explored.
ClickStartWithin(limit) ==
  /\ mounted
  /\ NoJobQueued
  /\ calls.start + calls.stop < limit
  /\ ~StartDisabled
  /\ startBot

\* The operator clicks the stop button (onClick={stopBot}).
ClickStopWithin(limit) ==
  /\ mounted
  /\ NoJobQueued
  /\ calls.start + calls.stop < limit
  /\ ~StopDisabled
  /\ stopBot

ClickStart == ClickStartWithin(MaxInvocations)
ClickStop == ClickStopWithin(MaxInvocations)

\* Mutant of CatchFinally: isLoading is reset in the try block only, so the
\* catch path leaves it set.
CatchNoFinally(t, reason) ==
  /\ AddLog(MsgConnection(reason), "error")
  /\ acts' = acts (-) One(t)
  /\ UNCHANGED <<config, botStatus, isLoading, mounted, polls, sent, calls, remote, clock>>

\* Mutant of CatchFinally: the catch block writes to the console, as the
\* one of fetchBotStatus does, and not to the log.
CatchSilentFinally(t, reason) ==
  /\ isLoading' \in SetState(isLoading, FALSE)
  /\ acts' = acts (-) One(t)
  /\ UNCHANGED <<config, botStatus, logs, mounted, polls, sent, calls, remote, clock,
                 appended>>

\* The catch and finally blocks of startBot and stopBot.
CatchFinally(t, reason) ==
  /\ AddLog(MsgConnection(reason), "error")
  /\ isLoading' \in SetState(isLoading, FALSE)
  /\ acts' = acts (-) One(t)
  /\ UNCHANGED <<config, botStatus, mounted, polls, sent, calls, remote, clock>>

\* The finally block alone.
Finally(t) ==
  /\ isLoading' \in SetState(isLoading, FALSE)
  /\ acts' = acts (-) One(t)

\* The POST of a start or stop rejects (no response).
ActFetchFails ==
  \E t \in BagToSet(acts), reason \in FetchErrors :
    /\ t.pc = "fetch"
    /\ CatchFinally(t, reason)

\* The POST of a start or stop resolves with a response.
ActFetchResolves ==
  \E t \in BagToSet(acts), r \in Responses :
    /\ t.pc = "fetch"
    /\ acts' = Moved(acts, t, [t EXCEPT !.pc = "json", !.resp = r])
    /\ UNCHANGED <<config, botStatus, logs, isLoading, mounted, polls, sent,
                   calls, remote, clock, appended>>

\* Mutant of MsgSuccess: the entry names the symbol of the config as it is
\* when the response arrives.
MsgSuccessCurrentConfig(t) ==
  IF t.kind = "start" THEN MsgStarted(config.symbol) ELSE MsgStopped

\* The message logged for a response with response.ok; config is the one of
\* the render startBot was invoked in.
MsgSuccess(t) == IF t.kind = "start" THEN MsgStarted(t.cfg.symbol) ELSE MsgStopped

\* Mutant of OnOk: fetchBotStatus() is called without await, so the finally
\* block runs at once and the poll goes on by itself.
OnOkNoAwait(t) ==
  /\ AddLog(MsgSuccess(t), "success")
  /\ sent' = [sent EXCEPT !.status = @ + 1]
  /\ polls' = polls (+) One(PollTask("fetch", NoResponse))
  /\ isLoading' \in SetState(isLoading, FALSE)
  /\ acts' = acts (-) One(t)
  /\ UNCHANGED <<config, botStatus, mounted, calls, remote, clock>>

\* After response.json() resolved with response.ok: the success entry and
\* the call of fetchBotStatus, which issues its GET.
OnOk(t) ==
  /\ AddLog(MsgSuccess(t), "success")
  /\ sent' = [sent EXCEPT !.status = @ + 1]
  /\ acts' = Moved(acts, t, [t EXCEPT !.pc = "pollFetch", !.resp = NoResponse])
  /\ UNCHANGED <<config, botStatus, isLoading, mounted, polls, calls, remote, clock>>

\* Mutant of OnNotOk: the entry is built from result.message.
OnNotOkReadsMessage(t) ==
  /\ AddLog(MsgFailed(t.kind, Field(t.resp.body.value, "message")), "error")
  /\ isLoading' \in SetState(isLoading, FALSE)
  /\ acts' = acts (-) One(t)
  /\ UNCHANGED <<config, botStatus, mounted, polls, sent, calls, remote, clock>>

\* After response.json() resolved without response.ok: the error entry
\* with result.detail, then finally.
OnNotOk(t) ==
  /\ AddLog(MsgFailed(t.kind, Field(t.resp.body.value, "detail")), "error")
  /\ Finally(t)
  /\ UNCHANGED <<config, botStatus, mounted, polls, sent, calls, remote, clock>>

\* response.json() of a start or stop settles.
ActJsonSettles ==
  \E t \in BagToSet(acts) :
    /\ t.pc = "json"
    /\ IF ~t.resp.body.parses
       THEN CatchFinally(t, t.resp.body.value.message)
       ELSE IF t.resp.ok THEN OnOk(t) ELSE OnNotOk(t)

\* fetch of the poll awaited by startBot/stopBot rejects: fetchBotStatus
\* catches it, writes to the console and returns, which queues the
\* continuation of the handler.
ActPollFetchFails ==
  \E t \in BagToSet(acts) :
    /\ t.pc = "pollFetch"
    /\ acts' = Moved(acts, t, [t EXCEPT !.pc = "resume"])
    /\ UNCHANGED <<config, botStatus, logs, isLoading, mounted, polls, sent,
                   calls, remote, clock, appended>>

\* fetch of the poll awaited by startBot/stopBot resolves.
ActPollFetchResolves ==
  \E t \in BagToSet(acts), r \in Responses :
    /\ t.pc = "pollFetch"
    /\ acts' = Moved(acts, t, [t EXCEPT !.pc = "pollJson", !.resp = r])
    /\ UNCHANGED <<config, botStatus, logs, isLoading, mounted, polls, sent,
                   calls, remote, clock, appended>>

\* response.json() of the poll awaited by startBot/stopBot settles:
\* fetchBotStatus sets the status (or catches the rejection) and returns,
\* which queues the continuation of the handler.
ActPollJsonSettles ==
  \E t \in BagToSet(acts) :
    /\ t.pc = "pollJson"
    /\ botStatus' \in StatusAfter(t.resp)
    /\ acts' = Moved(acts, t, [t EXCEPT !.pc = "resume", !.resp = NoResponse])
    /\ UNCHANGED <<config, logs, isLoading, mounted, polls, sent, calls, remote,
                   clock, appended>>

\* The handler resumes after await fetchBotStatus(), in a promise job of
\* its own, and runs finally.
ActResumes ==
  \E t \in BagToSet(acts) :
    /\ t.pc = "resume"
    /\ Finally(t)
    /\ UNCHANGED <<config, botStatus, logs, mounted, polls, sent, calls, remote,
                   clock, appended>>

\* --------------------------------------------------------- specifications
Settle ==
  \/ PollFetchFails \/ PollFetchResolves \/ PollJsonSettles
  \/ ActFetchFails \/ ActFetchResolves \/ ActJsonSettles
  \/ ActPollFetchFails \/ ActPollFetchResolves \/ ActPollJsonSettles
  \/ ActResumes

\* The panel driven through its controls.
Next ==
  \/ Edit \/ Tick \/ Unmount
  \/ ClickStart \/ ClickStop
  \/ Settle

Spec == Init /\ [][Next]_vars

\* The settling of the network calls a start or stop awaits.
ActSettle ==
  \/ ActFetchFails \/ ActFetchResolves \/ ActJsonSettles
  \/ ActPollFetchFails \/ ActPollFetchResolves \/ ActPollJsonSettles
  \/ ActResumes

\* The panel driven through its controls, with every network call awaited
\* by a start or stop settling.
ClickStartFair == ClickStartWithin(MaxFairInvocations)
ClickStopFair == ClickStopWithin(MaxFairInvocations)

NextFair ==
  \/ Edit \/ Tick \/ Unmount
  \/ ClickStartFair \/ ClickStopFair
  \/ Settle

FairSpec == Init /\ [][NextFair]_vars /\ WF_vars(ActSettle)

\* startBot invoked although the start button is disabled (a call of the
\* handler that does not come through the button).
DirectStart ==
  /\ mounted
  /\ NoJobQueued
  /\ calls.start + calls.stop < MaxInvocations
  /\ StartDisabled
  /\ startBot

NextDirect == Next \/ DirectStart

\* The panel with startBot also invocable behind the button's back.
SpecDirect == Init /\ [][NextDirect]_vars

\* A long run of appends: the operator keeps clicking start with the keys
\* missing while time passes.
ClickStartAgain == ClickStartWithin(LogRun)

NextLog == ClickStartAgain \/ AdvanceClock

SpecLog == Init /\ [][NextLog]_vars

\* The panel driven through its controls, with the timer still firing after
\* a start or stop has issued its own status request.
TickBusy == TickWithin(MaxBusyPolls)

NextBusy ==
  \/ Edit \/ TickBusy \/ Unmount
  \/ ClickStartFair \/ ClickStopFair
  \/ Settle

SpecBusy == Init /\ [][NextBusy]_vars

\* ------------------------------------------------------ the live panel
\* The panel stays mounted and every status request is answered 200 with
\* the status of the trading process as it is when it answers.
StatusAnswer == [ok |-> TRUE, body |-> JsonBody(RemoteStatus)]

\* The process starts or stops by itself.
RemoteChanges ==
  /\ remote.changes < MaxRemoteChanges
  /\ remote' = [running |-> ~remote.running, changes |-> remote.changes + 1]
  /\ UNCHANGED <<config, botStatus, logs, isLoading, mounted, acts, polls,
                 sent, calls, clock, appended>>

\* The process after a start or stop request answered with r: a 2xx answer
\* means the command was carried out.
RemoteAfter(kind, r) ==
  IF r.ok THEN [remote EXCEPT !.running = (kind = "start")] ELSE remote

\* The interval timer fires fetchBotStatus.
LiveTick == TickWithin(MaxLivePolls)

\* fetch of a timer-driven poll resolves with the answer of the process.
LivePollFetchResolves ==
  \E p \in BagToSet(polls) :
    /\ p.pc = "fetch"
    /\ polls' = Moved(polls, p, PollTask("json", StatusAnswer))
    /\ UNCHANGED <<config, botStatus, logs, isLoading, mounted, acts, sent,
                   calls, clock, appended, remote>>

\* fetch of the start or stop request resolves: the process has handled
\* the command.
LiveActFetchResolves ==
  \E t \in BagToSet(acts), r \in Responses :
    /\ t.pc = "fetch"
    /\ acts' = Moved(acts, t, [t EXCEPT !.pc = "json", !.resp = r])
    /\ remote' = RemoteAfter(t.kind, r)
    /\ UNCHANGED <<config, botStatus, logs, isLoading, mounted, polls, sent,
                   calls, clock, appended>>

\* fetch of the poll awaited by a start or stop resolves with the answer
\* of the process.
LiveActPollFetchResolves ==
  \E t \in BagToSet(acts) :
    /\ t.pc = "pollFetch"
    /\ acts' = Moved(acts, t, [t EXCEPT !.pc = "pollJson", !.resp = StatusAnswer])
    /\ UNCHANGED <<config, botStatus, logs, isLoading, mounted, polls, sent,
                   calls, clock, appended, remote>>

NextLive ==
  \/ Edit \/ LiveTick \/ RemoteChanges
  \/ ClickStartFair \/ ClickStopFair
  \/ LivePollFetchResolves \/ PollJsonSettles
  \/ ActFetchFails \/ LiveActFetchResolves \/ ActJsonSettles
  \/ LiveActPollFetchResolves \/ ActPollJsonSettles \/ ActResumes

\* The timer fires while the panel is mounted, and every status request
\* is answered and its body read.
LiveSpec ==
  /\ Init /\ [][NextLive]_vars
  /\ WF_vars(LiveTick)
  /\ WF_vars(LivePollFetchResolves)
  /\ WF_vars(PollJsonSettles)
  /\ WF_vars(LiveActPollFetchResolves)
  /\ WF_vars(ActPollJsonSettles)
  /\ WF_vars(ActResumes)

\* The form alone: any sequence of change events.
NextForm == EditForm
SpecForm == Init /\ [][NextForm]_vars

\* ---------------------------------------------------------------- claims
\* Helpers of the properties below.
Last(seq) == seq[Len(seq)]
LastN(seq, n) == IF Len(seq) <= n THEN seq ELSE [i \in 1..n |-> seq[Len(seq) - n + i]]
Min(a, b) == IF a <= b THEN a ELSE b
\* The step takes task t out of the state it waits in.
Leaves(t, bag, bagAfter) == CopiesIn(t, bagAfter) < CopiesIn(t, bag)
\* The step is an invocation of startBot.
StartInvoked == calls'.start = calls.start + 1
\* Start and stop requests whose response has not been read yet.
Outstanding == { t \in BagToSet(acts) : t.pc \in {"fetch", "json"} }
NumOutstanding == BagCardinality(acts (-) SetToBag({ t \in BagToSet(acts) : t.pc \notin {"fetch", "json"} }))
\* The step appends exactly the entry e to the log.
Appends(e) ==
  /\ appended' = Append(appended, e)
  /\ mounted => logs' # <<>> /\ Last(logs') = e /\ Len(logs') = Min(Len(logs) + 1, 100)

\* C1: an invocation of start while isLoading is true issues no start-bot
\* request, whether or not the start button is disabled.
C1_BusyStartSendsNothing ==
  [][(StartInvoked /\ isLoading) => sent'.start = sent.start]_vars

\* C2: through the controls, at most one start-bot or stop-bot request is
\* outstanding, and isLoading is true whenever one is.
C2_OneCommandInFlight ==
  /\ NumOutstanding <= 1
  /\ NumOutstanding >= 1 => isLoading

\* C2 witness: a stop request is outstanding after a start request was
\* answered.
C2_Witness ==
  /\ sent.start = 1 /\ sent.stop = 1
  /\ \E t \in Outstanding : t.kind = "stop" /\ t.pc = "json"
  /\ isLoading

\* C3: a start invoked with api_key or secret_key empty sends no request,
\* appends exactly one entry, of type error, and isLoading is false before
\* and after (no task is suspended in between).
C3_ValidationGate ==
  [][(StartInvoked /\ (config.api_key = "" \/ config.secret_key = "")) =>
       /\ sent' = sent
       /\ acts' = acts
       /\ Len(appended') = Len(appended) + 1
       /\ Last(appended').type = "error"
       /\ Appends(Last(appended'))
       /\ ~isLoading /\ ~isLoading']_vars

\* C3 witness: start was clicked with the API key entered and the secret key
\* empty.
C3_Witness ==
  /\ config.api_key = "k1" /\ config.secret_key = ""
  /\ calls.start = 1 /\ sent.start = 0
  /\ Len(logs) = 1 /\ logs[1].type = "error"
  /\ ~isLoading

\* C4: after n appends the log holds the last min(n, 100) entries appended,
\* in the order they were appended.
C4_RingBound ==
  /\ Len(logs) = Min(Len(appended), 100)
  /\ logs = LastN(appended, 100)

\* C4 witness: more than 100 entries were appended, and the oldest and the
\* newest entry kept differ.
C4_Witness ==
  /\ Len(appended) > 101
  /\ Len(logs) = 100
  /\ logs[1] # logs[100]

\* C5: with every network call it awaits settling, a start or stop that set
\* isLoading resets it: isLoading is false whenever no start or stop is
\* suspended, and a true isLoading eventually becomes false (as long as the
\* component is mounted).
C5_GuardReleased ==
  /\ [](mounted /\ acts = EmptyBag => ~isLoading)
  /\ ((mounted /\ isLoading) ~> (~isLoading \/ ~mounted))

\* C5 witness: a start ended in its catch block and isLoading is false.
C5_Witness ==
  /\ mounted /\ ~isLoading /\ acts = EmptyBag
  /\ sent.start = 1 /\ calls.start = 1
  /\ Len(logs) = 1 /\ logs[1].message[1] = "Connection error: "

\* A start task whose response was received and whose body is being read.
StartAwaitingJson(t) == t.kind = "start" /\ t.pc = "json"
\* The step settles the fetch t waits for by a rejection: t leaves and no
\* task takes its place.
FetchRejected(t, bag, bagAfter) ==
  /\ t.pc = "fetch"
  /\ Leaves(t, bag, bagAfter)
  /\ BagCardinality(bagAfter) < BagCardinality(bag)

\* The step settles the status request a start or stop awaits by a
\* rejection: t leaves and its continuation is queued without a response
\* having been received.
PollRejected(t, bag, bagAfter) ==
  /\ t.pc = "pollFetch"
  /\ Leaves(t, bag, bagAfter)
  /\ \E u \in BagToSet(bagAfter) :
       u.pc = "resume" /\ CopiesIn(u, bagAfter) > CopiesIn(u, bag)

\* C6: whenever the start request gets a 2xx response, whatever its body,
\* start appends "bot started for pair <symbol>" with type success and issues
\* a status request; it logs no error.
C6_SuccessOnAny2xx ==
  [][\A t \in BagToSet(acts) :
       (StartAwaitingJson(t) /\ t.resp.ok /\ Leaves(t, acts, acts')) =>
         /\ Len(appended') = Len(appended) + 1
         /\ Last(appended').type = "success"
         /\ Last(appended').message = <<"Bot started for pair ", t.body.symbol>>
         /\ sent'.status = sent.status + 1]_vars

\* C7: when the start request gets a non-2xx response with a detail field,
\* start appends one entry "start failed: <detail>" of type error with the
\* detail as sent, sends nothing (and start requests are only ever sent by an
\* invocation of start), ends, and isLoading is false.
C7_RemoteRejection ==
  [][/\ \A t \in BagToSet(acts) :
          (/\ StartAwaitingJson(t) /\ ~t.resp.ok /\ t.resp.body.parses
           /\ "detail" \in DOMAIN t.resp.body.value
           /\ Leaves(t, acts, acts')) =>
            /\ Len(appended') = Len(appended) + 1
            /\ Last(appended').type = "error"
            /\ Last(appended').message = <<"Start error: ", t.resp.body.value.detail>>
            /\ Appends(Last(appended'))
            /\ sent' = sent
            /\ acts' = acts (-) SetToBag({t})
            /\ mounted => ~isLoading'
     /\ sent'.start # sent.start => StartInvoked /\ sent'.start = sent.start + 1]_vars

\* C7 witness: the start request was answered 400 {"detail": "invalid
\* symbol"} and the handler has returned.
C7_Witness ==
  /\ mounted /\ ~isLoading /\ acts = EmptyBag
  /\ sent.start = 1
  /\ Len(logs) = 1
  /\ logs[1].type = "error"
  /\ logs[1].message = <<"Start error: ", "invalid symbol">>

\* C8: when the fetch of a start or stop request rejects, the handler
\* appends one entry "connection error: <reason>" of type error, sends
\* nothing, ends, and isLoading is false.
C8_TransportFailure ==
  [][\A t \in BagToSet(acts) :
       (t.pc = "fetch" /\ FetchRejected(t, acts, acts')) =>
         /\ Len(appended') = Len(appended) + 1
         /\ Last(appended').type = "error"
         /\ Last(appended').message[1] = "Connection error: "
         /\ Last(appended').message[2] \in FetchErrors
         /\ Appends(Last(appended'))
         /\ sent' = sent
         /\ acts' = acts (-) SetToBag({t})
         /\ mounted => ~isLoading']_vars

\* C8 witness: the stop request failed at transport level and the handler
\* has returned.
C8_Witness ==
  /\ mounted /\ ~isLoading /\ acts = EmptyBag
  /\ sent.stop = 1 /\ calls.stop = 1 /\ sent.start = 0
  /\ Len(logs) = 1
  /\ logs[1].message = <<"Connection error: ", "Failed to fetch">>

\* C9: a failed status poll leaves botStatus unchanged, whatever the
\* failure: a rejected fetch, a body that does not parse, a non-2xx response
\* (also one whose body is JSON).
C9_FailedPollKeepsSnapshot ==
  [][/\ \A p \in BagToSet(polls) :
          (\/ FetchRejected(p, polls, polls')
           \/ (/\ p.pc = "json" /\ Leaves(p, polls, polls')
               /\ (~p.resp.ok \/ ~p.resp.body.parses)))
            => botStatus' = botStatus
     /\ \A t \in BagToSet(acts) :
          (\/ PollRejected(t, acts, acts')
           \/ (/\ t.pc = "pollJson" /\ Leaves(t, acts, acts')
               /\ (~t.resp.ok \/ ~t.resp.body.parses)))
            => botStatus' = botStatus]_vars

\* C10: no status poll appends to the log.  A step that issues or settles a
\* timer-driven poll, or settles the poll awaited by a start or stop, or
\* resumes the start or stop after it, leaves the log as it is; the step in which a start or stop issues its poll
\* appends the success entry of that start or stop and nothing else.
C10_PollsNeverLog ==
  [][/\ polls' # polls => logs' = logs /\ appended' = appended
     /\ \A t \in BagToSet(acts) :
          (t.pc \in {"pollFetch", "pollJson", "resume"} /\ Leaves(t, acts, acts')) =>
            logs' = logs /\ appended' = appended
     /\ (sent'.status # sent.status /\ polls' = polls) =>
          /\ Len(appended') = Len(appended) + 1
          /\ Last(appended').type = "success"]_vars

\* C10 witness: a timer-driven poll and the poll awaited by a start have
\* both failed, and the log holds the entry of the start alone.
C10_Witness ==
  /\ mounted /\ polls = EmptyBag /\ acts = EmptyBag
  /\ sent.status = 2 /\ sent.start = 1 /\ sent.stop = 0
  /\ botStatus = InitialStatus
  /\ Len(logs) = 1 /\ logs[1].type = "success"

C12_NoPollAfterTeardown ==
  [][~mounted => sent'.status = sent.status]_vars

\* The parsed bodies a status request can be answered with.
ResponseBodies == {r.body.value : r \in {x \in Responses : x.body.parses}}

\* C13: botStatus is the initial snapshot or the whole parsed body of one
\* response, and a step that changes botStatus sets it to the whole body of
\* the response the poll settled by that step holds.
C13_WholesaleReplacement ==
  /\ [](botStatus = InitialStatus \/ botStatus \in ResponseBodies)
  /\ [][botStatus' # botStatus =>
          \/ \E p \in BagToSet(polls) :
               /\ p.pc = "json" /\ Leaves(p, polls, polls')
               /\ p.resp.body.parses /\ botStatus' = p.resp.body.value
          \/ \E t \in BagToSet(acts) :
               /\ t.pc = "pollJson" /\ Leaves(t, acts, acts')
               /\ t.resp.body.parses /\ botStatus' = t.resp.body.value]_vars

\* C13 witness: two polls overlapped and the later one was applied first:
\* the poll awaited by a start has set botStatus to the stopped status while
\* the timer-driven poll issued before it still holds the running status.
C13_Witness ==
  /\ botStatus = StatusStopped
  /\ sent.status = 2 /\ sent.start = 1 /\ acts = EmptyBag
  /\ \E p \in BagToSet(polls) :
       /\ p.pc = "json" /\ p.resp.body.parses
       /\ p.resp.body.value = StatusRunning

\* C15: the item of a numeric status field is shown exactly when the field
\* is present in botStatus, also when its value is 0.
C15_ShownIffPresent ==
  \A f \in NumericStatusFields :
    StatusItemShown(botStatus, f) <=> f \in DOMAIN botStatus

\* C16: through the buttons, a start request is sent only from a state in
\* which botStatus.running is not true and isLoading is false, and a stop
\* request only from a state in which botStatus.running is true and
\* isLoading is false.
C16_ControlsGate ==
  [][/\ sent'.start # sent.start =>
          /\ ~("running" \in DOMAIN botStatus /\ botStatus.running = TRUE)
          /\ ~isLoading
     /\ sent'.stop # sent.stop =>
          /\ "running" \in DOMAIN botStatus /\ botStatus.running = TRUE
          /\ ~isLoading]_vars

\* C16 witness: a poll has shown the bot running, stop was clicked and its
\* request is outstanding.
C16_Witness ==
  /\ sent.stop = 1 /\ sent.start = 0
  /\ \E t \in BagToSet(acts) : t.kind = "stop" /\ t.pc = "fetch"
  /\ botStatus = StatusRunning /\ isLoading

\* C17: botStatus changes only in a step in which a status poll completes
\* successfully (a 2xx response whose body parses); no other step writes it.
C17_OnlySuccessfulPollWrites ==
  [][botStatus' # botStatus =>
       \/ \E p \in BagToSet(polls) :
            /\ p.pc = "json" /\ Leaves(p, polls, polls')
            /\ p.resp.ok /\ p.resp.body.parses
       \/ \E t \in BagToSet(acts) :
            /\ t.pc = "pollJson" /\ Leaves(t, acts, acts')
            /\ t.resp.ok /\ t.resp.body.parses]_vars

\* C19: the success entry of a start names the symbol of the body that
\* start request was sent with, and such an entry is appended by nothing
\* else.
C19_LoggedSymbolIsSentSymbol ==
  [][/\ \A t \in BagToSet(acts) :
          (/\ StartAwaitingJson(t) /\ t.resp.ok /\ t.resp.body.parses
           /\ Leaves(t, acts, acts')) =>
            /\ Len(appended') = Len(appended) + 1
            /\ Last(appended').message = <<"Bot started for pair ", t.body.symbol>>
     /\ (/\ Len(appended') > Len(appended)
         /\ Last(appended').message[1] = "Bot started for pair ") =>
          \E t \in BagToSet(acts) :
            /\ StartAwaitingJson(t) /\ Leaves(t, acts, acts')
            /\ Last(appended').message[2] = t.body.symbol]_vars

\* C19 witness: the start request was sent with the default symbol, the
\* symbol field now holds another one, and the entry names the one sent.
C19_Witness ==
  /\ config.symbol = "ETHUSDT"
  /\ \E t \in BagToSet(acts) :
       /\ t.kind = "start" /\ t.pc = "pollFetch"
       /\ t.body.symbol = "BTCUSDT"
  /\ Len(logs) = 1
  /\ logs[1].message = <<"Bot started for pair ", "BTCUSDT">>

\* The value is a JS number: NaN, an infinity or a decimal.
NumberHeld(v) ==
  /\ DOMAIN v = {"kind", "neg", "bits", "bexp"}
  /\ v.kind \in {"nan", "inf", "num"}
  /\ v.neg \in BOOLEAN /\ v.bexp \in Int
  /\ \A i \in 1..Len(v.bits) : v.bits[i] \in {0, 1}

\* C18: after any sequence of change events buy_quantity, sell_quantity and
\* max_price_deviation hold numbers and api_key, secret_key and symbol hold
\* strings; a change event changes no field but the one it names, and the
\* value it stores is the text typed for a string field and parseFloat of
\* the text for a number field, whatever its range.
C18_CoercedUpdate ==
  /\ [](/\ NumberHeld(config.buy_quantity)
        /\ NumberHeld(config.sell_quantity)
        /\ NumberHeld(config.max_price_deviation)
        /\ config.api_key \in STRING
        /\ config.secret_key \in STRING
        /\ config.symbol \in STRING)
  /\ [][\A f \in DOMAIN config :
          config'[f] # config[f] =>
            /\ \A g \in DOMAIN config \ {f} : config'[g] = config[g]
            /\ \E e \in FormEvents :
                 /\ e.name = f
                 /\ config'[f] = IF e.type = "number"
                                 THEN ParseFloat(e.value) ELSE e.value]_vars

\* C18 witness: empty text was typed into buy_quantity, -1 into
\* sell_quantity and 0.9 into max_price_deviation: the fields hold NaN,
\* -1 and 0.9, and the symbol typed is held as typed.
C18_Witness ==
  /\ config.buy_quantity = NaN
  /\ config.sell_quantity = [kind |-> "num", neg |-> TRUE, bits |-> <<1>>, bexp |-> 0]
  /\ config.max_price_deviation = Decimal(FALSE, <<"9">>, -1)
  /\ config.symbol = "ETHUSDT"
  /\ config.api_key = ""

\* A start or stop that awaits the status request it issued itself.
AwaitsPoll(t) == t.pc \in {"pollFetch", "pollJson"}

\* C20: the step that handles a successful response of a start or stop
\* issues a status request, leaves isLoading true and suspends the handler
\* on that request; while the handler waits for it, and until the handler
\* has resumed after it, isLoading is true and both buttons are disabled;
\* while the request is outstanding the timer can still fire; isLoading
\* becomes false only in a step after which no handler waits for its poll,
\* and never in the step that settles the poll.
C20_BusyUntilPollSettles ==
  /\ [](mounted =>
          \A t \in BagToSet(acts) :
            /\ (AwaitsPoll(t) \/ t.pc = "resume") =>
                 isLoading /\ StartDisabled /\ StopDisabled
            /\ (AwaitsPoll(t) /\ sent.status < MaxBusyPolls) => ENABLED TickBusy)
  /\ [][/\ \A t \in BagToSet(acts) :
             (/\ mounted /\ t.pc = "json" /\ t.resp.ok /\ t.resp.body.parses
              /\ Leaves(t, acts, acts')) =>
               /\ isLoading /\ isLoading'
               /\ sent'.status = sent.status + 1
               /\ \E u \in BagToSet(acts') : u.kind = t.kind /\ u.pc = "pollFetch"
        /\ (isLoading /\ ~isLoading') =>
             /\ \A u \in BagToSet(acts') : ~AwaitsPoll(u)
             /\ \E t \in BagToSet(acts) :
                  /\ Leaves(t, acts, acts')
                  /\ ~AwaitsPoll(t)
                  /\ ~(t.pc = "json" /\ t.resp.ok /\ t.resp.body.parses)]_vars

\* C20 witness: a start waits for the status request it issued, isLoading
\* is true, and a timer-driven status request is outstanding beside it.
C20_Witness ==
  /\ mounted /\ isLoading
  /\ \E t \in BagToSet(acts) : t.kind = "start" /\ t.pc = "pollFetch"
  /\ \E p \in BagToSet(polls) : p.pc = "fetch"
  /\ sent.status = 2 /\ sent.start = 1
  /\ botStatus = InitialStatus

\* The process has stopped changing: it changes by itself no more, and no
\* start or stop request is outstanding or still to come.
RemoteStable ==
  /\ remote.changes = MaxRemoteChanges
  /\ calls.start + calls.stop = MaxFairInvocations
  /\ \A t \in BagToSet(acts) : t.pc # "fetch"

\* No status request holds an answer given before the process last changed.
NoStaleAnswer ==
  /\ \A p \in BagToSet(polls) :
       p.pc = "json" => p.resp.body.value = RemoteStatus
  /\ \A t \in BagToSet(acts) :
       t.pc = "pollJson" => t.resp.body.value = RemoteStatus

\* C14: with the panel mounted and every status request answered with the
\* status of the process: once the process has stopped changing, the
\* answers given before drain away; from then on, as long as one more
\* status request is issued, botStatus comes to equal the status of the
\* process, and once equal it stays equal; and a start answered 2xx, with
\* one more status request issued, leads to botStatus.running being true
\* (unless the process stops by itself in between).
C14_EventuallyConsistent ==
  /\ RemoteStable ~> (RemoteStable /\ NoStaleAnswer)
  /\ (RemoteStable /\ NoStaleAnswer /\ sent.status < MaxLivePolls)
       ~> (botStatus = RemoteStatus)
  /\ [][(RemoteStable /\ NoStaleAnswer /\ botStatus = RemoteStatus) =>
          (RemoteStable /\ NoStaleAnswer /\ botStatus = RemoteStatus)']_vars
  /\ ((\E t \in BagToSet(acts) : StartAwaitingJson(t) /\ t.resp.ok)
        /\ sent.status < MaxLivePolls)
       ~> (Running(botStatus) \/ ~remote.running)

\* C14 witness: a start was answered 2xx, the process runs and has stopped
\* changing, the handler has returned and botStatus shows it running.
C14_Witness ==
  /\ RemoteStable /\ NoStaleAnswer
  /\ remote.running
  /\ sent.start = 1 /\ sent.stop = 0 /\ acts = EmptyBag
  /\ botStatus = StatusRunning
  /\ Len(logs) = 1 /\ logs[1].type = "success"

\* A state C14 is about: the process has stopped changing, botStatus shows
\* an answer given before its last change, and the timer is still to fire.
C14_StaleShown ==
  /\ RemoteStable /\ NoStaleAnswer
  /\ botStatus = StatusRunning /\ ~remote.running
  /\ sent.status < MaxLivePolls

====
